---- MODULE Spec2Model ----
(***************************************************************************)
(* Model of useMenu (packages/ariakit/src/menu/menu.ts).                   *)
(*                                                                         *)
(* A chain of nested menus 1..depth is mounted: menu 1 is the top-level    *)
(* menu, menu i > 1 is a submenu whose MenuContext is menu i-1.            *)
(*                                                                         *)
(* Spec       : keydown events dispatched on a menu of the chain and       *)
(*              handled by useMenu's onKeyDown of each menu they reach.    *)
(* SpecRender : one call of the hook (the options it hands to              *)
(*              useHovercard) and later calls of the hideOnHoverOutside    *)
(*              callback it handed over.                                   *)
(***************************************************************************)
EXTENDS Integers, Sequences, FiniteSets, TLC

\* Longest chain of nested menus that is mounted.
MaxDepth == 3

Menus == 1..MaxDepth

\* JavaScript values of the props, by name.
Undefined == "undefined"
HideOnEscapeValues == {Undefined, "true", "false", "fnTrue", "fnFalse"}
OnKeyDownValues == {Undefined, "preventDefault", "stopPropagation"}
ModalValues == {Undefined, "true", "false"}
BackdropValues == {Undefined, "true", "false"}
HideOnHoverOutsideValues == {Undefined, "null", "true", "false", "fnTrue", "fnFalse"}
DisclosureValues == {"null", "focusWithin", "noFocusWithin"}
ActiveIdValues == {"null", "item"}
Keys == {"Escape", "ArrowDown"}

VARIABLES
    depth,          \* number of nested menus mounted
    keyProps,       \* per menu: the hideOnEscape and onKeyDown props of its last render
    event,          \* the keydown event being dispatched
    log,            \* calls made by the handlers for the current event, in order
    call,           \* the inputs of useMenu: props and context, and the menu it was last called for
    hovercard,      \* the options that call handed to useHovercard
    parentActiveId, \* activeId of the parent menu's store
    hover           \* outcome of the last hideOnHoverOutside callback call

vars == <<depth, keyProps, event, log, call, hovercard, parentActiveId, hover>>
keyVars == <<keyProps, event, log>>
renderVars == <<call, hovercard, parentActiveId, hover>>

----------------------------------------------------------------------------
\* Context

\* useStore(MenuContext): the parent menu of m, 0 when absent.
parentMenu(m) == IF m > 1 THEN m - 1 ELSE 0

hasParentMenu_Negated(m) == parentMenu(m) = 0
hasParentMenu(m) == parentMenu(m) # 0

parentIsMenuBar(m, menuBar) == menuBar /\ ~hasParentMenu(m)

----------------------------------------------------------------------------
\* Props

\* hideOnEscape = true in the destructuring: undefined takes the default.
hideOnEscapeDefault(v) == IF v = Undefined THEN "true" ELSE v

\* useBooleanEventCallback(hideOnEscape): a function is called, a boolean returned.
hideOnEscapeProp(v) == hideOnEscapeDefault(v) \in {"true", "fnTrue"}

\* useEventCallback(props.onKeyDown): what the caller's handler does to the event.
onKeyDownProp(v, e) ==
    CASE v = "preventDefault" -> [e EXCEPT !.defaultPrevented = TRUE]
      [] v = "stopPropagation" -> [e EXCEPT !.propagationStopped = TRUE]
      [] OTHER -> e

----------------------------------------------------------------------------
\* The keydown handler

LogEntry(m, c, r) == [menu |-> m, call |-> c, ret |-> r]

returnsEarly_Never(e) == FALSE
\* if (event.defaultPrevented) return;
returnsEarly(e) == e.defaultPrevented

stopsPropagation_Always(m) == TRUE
\* if (!hasParentMenu) event.stopPropagation();
stopsPropagation(m) == ~hasParentMenu(m)

\* The Escape branch, entered with the event not default-prevented.
onEscape(m, p, e, lg) ==
    LET h == hideOnEscapeProp(p.hideOnEscape)
        l1 == Append(lg, LogEntry(m, "hideOnEscapeProp", h))
    IN  IF ~h THEN [event |-> e, log |-> l1]
        ELSE LET e2 == IF stopsPropagation(m)
                       THEN [e EXCEPT !.propagationStopped = TRUE] ELSE e
                 l2 == IF stopsPropagation(m)
                       THEN Append(l1, LogEntry(m, "stopPropagation", TRUE)) ELSE l1
             IN  [event |-> e2, log |-> Append(l2, LogEntry(m, "hide", TRUE))]

\* onKeyDown of menu m with props p, called with event e.
onKeyDown(m, p, e, lg) ==
    LET e1 == onKeyDownProp(p.onKeyDown, e)
        l1 == Append(lg, LogEntry(m, "onKeyDownProp", e1.defaultPrevented))
    IN  IF returnsEarly(e1) THEN [event |-> e1, log |-> l1]
        ELSE IF e1.key = "Escape" THEN onEscape(m, p, e1, l1)
        ELSE [event |-> e1, log |-> l1]

\* The handler the event reaches after the one of menu m: the parent menu's,
\* unless propagation was stopped or m is the top-level menu (0: none).
nextHandler(m, e) == IF e.propagationStopped THEN 0 ELSE parentMenu(m)

NoEvent == [key |-> "none", defaultPrevented |-> FALSE,
            propagationStopped |-> FALSE, target |-> 0, current |-> 0]

----------------------------------------------------------------------------
\* The options handed to useHovercard

useHovercardOptions_PassThrough(m, p) ==
    [modal |-> p.modal, backdrop |-> p.backdrop,
     hideOnEscape |-> IF hasParentMenu(m) THEN "false"
                      ELSE hideOnEscapeDefault(p.hideOnEscape)]
useHovercardOptions_EscapePassThrough(m, p) ==
    [modal |-> IF hasParentMenu(m) THEN "false" ELSE p.modal,
     backdrop |-> IF hasParentMenu(m) THEN "false" ELSE p.backdrop,
     hideOnEscape |-> hideOnEscapeDefault(p.hideOnEscape)]
useHovercardOptions(m, p) ==
    [modal |-> IF hasParentMenu(m) THEN "false" ELSE p.modal,
     backdrop |-> IF hasParentMenu(m) THEN "false" ELSE p.backdrop,
     hideOnEscape |-> IF hasParentMenu(m) THEN "false"
                      ELSE hideOnEscapeDefault(p.hideOnEscape)]

hasFocusWithin_Negated(d) == d # "focusWithin"
\* hasFocusWithin(disclosure), for a disclosure element that exists.
hasFocusWithin(d) == d = "focusWithin"

\* The hideOnHoverOutside callback of menu m: the value it returns, the calls
\* it makes, and the parent's activeId afterwards.
hideOnHoverOutside(m, menuBar, v, d, active) ==
    IF v \in {"fnTrue", "fnFalse"}
    THEN [ret |-> v = "fnTrue", calls |-> <<"hideOnHoverOutsideProp">>, activeId |-> active]
    ELSE IF v \notin {Undefined, "null"}
    THEN [ret |-> v = "true", calls |-> <<>>, activeId |-> active]
    ELSE IF hasParentMenu(m)
    THEN [ret |-> TRUE, calls |-> <<"setActiveId">>, activeId |-> "null"]
    ELSE IF ~parentIsMenuBar(m, menuBar)
    THEN [ret |-> FALSE, calls |-> <<>>, activeId |-> active]
    ELSE IF d = "null"
    THEN [ret |-> TRUE, calls |-> <<>>, activeId |-> active]
    ELSE IF hasFocusWithin(d)
    THEN [ret |-> FALSE, calls |-> <<>>, activeId |-> active]
    ELSE [ret |-> TRUE, calls |-> <<>>, activeId |-> active]

NoCall == [menu |-> 0, menuBar |-> FALSE, activeId |-> "null",
           props |-> [hideOnEscape |-> Undefined, modal |-> Undefined,
                      backdrop |-> Undefined, hideOnHoverOutside |-> Undefined]]
NoHovercard == [modal |-> Undefined, backdrop |-> Undefined, hideOnEscape |-> Undefined]
NoHover == [called |-> FALSE, disclosure |-> "null", ret |-> FALSE, calls |-> <<>>]

----------------------------------------------------------------------------
\* Keydown events

KeyPropsSet == [hideOnEscape : HideOnEscapeValues, onKeyDown : OnKeyDownValues]

Init ==
    /\ depth \in Menus
    /\ keyProps \in [1..depth -> KeyPropsSet]
    /\ event = NoEvent
    /\ log = <<>>
    /\ call = NoCall
    /\ hovercard = NoHovercard
    /\ parentActiveId = "null"
    /\ hover = NoHover

\* A keydown is fired on an element inside menu t; dp: a handler below the
\* menu already prevented the default.
Dispatch(k, t, dp) ==
    /\ event.current = 0
    /\ event' = [key |-> k, defaultPrevented |-> dp, propagationStopped |-> FALSE,
                 target |-> t, current |-> t]
    /\ log' = <<>>
    /\ UNCHANGED <<depth, keyProps, renderVars>>

\* The event reaches the handler of menu event.current.
KeyDown ==
    /\ event.current # 0
    /\ LET m == event.current
           r == onKeyDown(m, keyProps[m], event, log)
       IN  /\ event' = [r.event EXCEPT !.current = nextHandler(m, r.event)]
           /\ log' = r.log
    /\ UNCHANGED <<depth, keyProps, renderVars>>

Next ==
    \/ \E k \in Keys, t \in 1..depth, dp \in BOOLEAN : Dispatch(k, t, dp)
    \/ KeyDown

Spec == Init /\ [][Next]_vars

----------------------------------------------------------------------------
\* Rendering and hover-outside

RenderPropsSet == [hideOnEscape : HideOnEscapeValues, modal : ModalValues,
                   backdrop : BackdropValues, hideOnHoverOutside : HideOnHoverOutsideValues]

InitRender ==
    /\ depth \in Menus
    /\ keyProps = [m \in 1..depth |-> [hideOnEscape |-> Undefined, onKeyDown |-> Undefined]]
    /\ event = NoEvent
    /\ log = <<>>
    /\ call \in [menu : {0}, menuBar : BOOLEAN, activeId : ActiveIdValues,
                 props : RenderPropsSet]
    /\ hovercard = NoHovercard
    /\ parentActiveId = call.activeId
    /\ hover = NoHover

\* useMenu is called for menu m with the props, the menu bar context and the
\* parent store of call.
Render(m) ==
    /\ call' = [call EXCEPT !.menu = m]
    /\ hovercard' = useHovercardOptions(m, call.props)
    /\ parentActiveId' = call.activeId
    /\ hover' = NoHover
    /\ UNCHANGED <<depth, keyVars>>

\* The hovercard calls the hideOnHoverOutside callback; d: the disclosure
\* element at that time.
HoverOutside(d) ==
    /\ call.menu # 0
    /\ LET r == hideOnHoverOutside(call.menu, call.menuBar,
                                   call.props.hideOnHoverOutside, d, parentActiveId)
       IN  /\ hover' = [called |-> TRUE, disclosure |-> d, ret |-> r.ret, calls |-> r.calls]
           /\ parentActiveId' = r.activeId
    /\ UNCHANGED <<depth, keyVars, call, hovercard>>

NextRender ==
    \/ \E m \in 1..depth : Render(m)
    \/ \E d \in DisclosureValues : HoverOutside(d)

SpecRender == InitRender /\ [][NextRender]_vars

----------------------------------------------------------------------------
\* Properties of the keydown handler (Spec)

Called(m, c) == \E i \in DOMAIN log : log[i].menu = m /\ log[i].call = c
Count(m, c) == Cardinality({i \in DOMAIN log : log[i].menu = m /\ log[i].call = c})
EntriesOf(m) == SelectSeq(log, LAMBDA x : x.menu = m)
Handled(m) == EntriesOf(m) # <<>>
\* The event was default-prevented when the caller's onKeyDown of m returned.
PreventedAt(m) == \E i \in DOMAIN log :
    log[i].menu = m /\ log[i].call = "onKeyDownProp" /\ log[i].ret
HidesOnEscape(m) == keyProps[m].hideOnEscape \in {Undefined, "true", "fnTrue"}

\* C1: when the handler of a menu ran for an Escape keydown that was not
\* default-prevented and the menu's hideOnEscape evaluates to true, the handler
\* called event.stopPropagation() iff the menu has no parent menu, and it
\* called state.hide() (once) either way.
C1_EscapeStopsPropagationIffTopLevel ==
    \A m \in 1..depth :
        (event.key = "Escape" /\ Handled(m) /\ ~PreventedAt(m) /\ HidesOnEscape(m))
            => /\ Called(m, "stopPropagation") <=> (m = 1)
               /\ Count(m, "hide") = 1

\* Both cases in one event: a submenu hid without stopping propagation and the
\* top-level menu hid and stopped it.
C1_Witness ==
    /\ event.key = "Escape"
    /\ Called(2, "hide") /\ ~Called(2, "stopPropagation") /\ ~PreventedAt(2)
    /\ Called(1, "hide") /\ Called(1, "stopPropagation") /\ ~PreventedAt(1)

C5_CallerHandlerFirstAndPreventDefaultSkips ==
    \A m \in 1..depth :
        Handled(m) =>
            /\ EntriesOf(m)[1].call = "onKeyDownProp"
            /\ Count(m, "onKeyDownProp") = 1
            /\ PreventedAt(m) => Len(EntriesOf(m)) = 1

\* The caller's handler of a menu that hides on Escape prevented the default of
\* an Escape keydown, and the handler did nothing more.
C5_Witness ==
    \E m \in 1..depth :
        /\ event.key = "Escape" /\ HidesOnEscape(m)
        /\ keyProps[m].onKeyDown = "preventDefault"
        /\ PreventedAt(m) /\ Len(EntriesOf(m)) = 1

----------------------------------------------------------------------------
\* Properties of the options handed to useHovercard (SpecRender)

\* C3: for a submenu the modal and backdrop options handed to useHovercard are
\* false whatever the props say; for a menu without parent menu they are the
\* caller's values.
C3_SubmenuNeverModalNorBackdrop ==
    call.menu # 0 =>
        /\ call.menu > 1 => hovercard.modal = "false" /\ hovercard.backdrop = "false"
        /\ call.menu = 1 => /\ hovercard.modal = call.props.modal
                            /\ hovercard.backdrop = call.props.backdrop

C3_Witness ==
    /\ call.menu > 1 /\ call.props.modal = "true" /\ call.props.backdrop = "true"
    /\ hovercard.modal = "false" /\ hovercard.backdrop = "false"

\* C4: for a submenu the hideOnEscape option handed to useHovercard is false
\* whatever the caller passed; for a menu without parent menu it is the
\* caller's hideOnEscape, true when the caller passed none.
C4_SubmenuHovercardNeverHidesOnEscape ==
    call.menu # 0 =>
        /\ call.menu > 1 => hovercard.hideOnEscape = "false"
        /\ call.menu = 1 =>
              hovercard.hideOnEscape = IF call.props.hideOnEscape = Undefined
                                       THEN "true" ELSE call.props.hideOnEscape

C4_Witness ==
    /\ call.menu > 1 /\ call.props.hideOnEscape \in {"true", "fnTrue"}
    /\ hovercard.hideOnEscape = "false"

\* C6: with no hideOnHoverOutside from the caller, the callback returns: for a
\* submenu (menu bar context or not) true, having called
\* parentMenu.setActiveId(null); for a menu with neither parent menu nor menu
\* bar, false; for a menu of a menu bar, true without disclosure element, false
\* with focus within the disclosure, true otherwise.
C6_DefaultHideOnHoverOutside ==
    (hover.called /\ call.props.hideOnHoverOutside \in {Undefined, "null"}) =>
        /\ call.menu > 1 =>
              hover.ret /\ hover.calls = <<"setActiveId">> /\ parentActiveId = "null"
        /\ (call.menu = 1 /\ ~call.menuBar) => ~hover.ret /\ hover.calls = <<>>
        /\ (call.menu = 1 /\ call.menuBar) =>
              /\ hover.calls = <<>>
              /\ hover.disclosure = "null" => hover.ret
              /\ hover.disclosure = "focusWithin" => ~hover.ret
              /\ hover.disclosure = "noFocusWithin" => hover.ret

\* A submenu under a menu bar, whose parent had an active item, was hovered out.
C6_Witness ==
    /\ hover.called /\ call.props.hideOnHoverOutside = Undefined
    /\ call.menu > 1 /\ call.menuBar /\ call.activeId = "item"
    /\ hover.ret /\ parentActiveId = "null"

====
